---- MODULE Spec2Model ----
(***************************************************************************)
(* Model of the task-manager backend: registration, login, bearer tokens,  *)
(* identity resolution and the ownership-scoped task operations.           *)
(*                                                                         *)
(* Strings whose content the code inspects (usernames, passwords, titles)  *)
(* are sequences of one-character strings; strings the code only compares  *)
(* for equality (emails, descriptions, categories) are plain strings.      *)
(* Time is counted in minutes.                                             *)
(***************************************************************************)
EXTENDS Integers, Sequences, FiniteSets, Bags, TLC

VARIABLES users, tasks, now, issued, reg, calls, resp

vars == <<users, tasks, now, issued, reg, calls, resp>>

\* Python's None.
None == "None"

-----------------------------------------------------------------------------
(* Bounds *)

\* Number of requests the server handles at the same time.
NumProcs == 2
\* Tokens a client keeps at the same time.
MaxTokens == 2
\* Last minute of the clock in the token specification.
MaxClock == 61
\* Largest task id the task table hands out.
MaxTaskId == 2

Procs == 1..NumProcs

-----------------------------------------------------------------------------
(* Python string methods *)

LowerChar(c) ==
    CASE c = "A" -> "a"
      [] c = "B" -> "b"
      [] c = "L" -> "l"
      [] c = "O" -> "o"
      [] OTHER -> c

\* str.lower()
Lower(s) == [i \in 1..Len(s) |-> LowerChar(s[i])]

IsSpace(c) == c \in {" ", "\t"}
IsDigit(c) == c \in {"0", "1", "2", "3", "4", "5", "6", "7", "8", "9"}
IsAlpha(c) == ~IsDigit(c) /\ ~IsSpace(c) /\ c \notin {"!", "-", "_"}

RECURSIVE LStrip(_)
LStrip(s) == IF s # <<>> /\ IsSpace(Head(s)) THEN LStrip(Tail(s)) ELSE s

RECURSIVE RStrip(_)
RStrip(s) ==
    IF s # <<>> /\ IsSpace(s[Len(s)]) THEN RStrip(SubSeq(s, 1, Len(s) - 1)) ELSE s

\* str.strip()
Strip(s) == LStrip(RStrip(s))

-----------------------------------------------------------------------------
(* Responses *)

Bearer == [WWW_Authenticate |-> "Bearer"]
NoHeaders == <<>>

Response(op, req, status, detail, headers, body) ==
    [op |-> op, req |-> req, status |-> status, detail |-> detail,
     headers |-> headers, body |-> body]

NoResponse == Response("none", None, 0, None, NoHeaders, None)

-----------------------------------------------------------------------------
(* security.py *)

SECRET_KEY == "SECRET_KEY"
ACCESS_TOKEN_EXPIRE_MINUTES == 30

Salts == {"salt1", "salt2"}

\* bcrypt digest of a password under a salt.
Digest(password, salt) == <<salt, password>>

\* pwd_context.hash: the salt is drawn at random by the caller of this operator.
hash_password(password, salt) == [salt |-> salt, digest |-> Digest(password, salt)]

\* A verification that accepts every password.
verify_password_Any(plain_password, hashed_password) == TRUE

\* pwd_context.verify
verify_password(plain_password, hashed_password) ==
    hashed_password.digest = Digest(plain_password, hashed_password.salt)

\* jwt.encode: a signed token is its claims and the key that signed them.
JwtEncode(claims, key) == [kind |-> "jws", claims |-> claims, key |-> key]

\* jwt.decode: signature first, then the exp claim (rejected when exp < now).
JwtDecode(token, key, t) ==
    IF token.kind # "jws" THEN [ok |-> FALSE, error |-> "JWTError: malformed"]
    ELSE IF token.key # key THEN [ok |-> FALSE, error |-> "JWTError: signature"]
    ELSE IF "exp" \in DOMAIN token.claims /\ token.claims["exp"] < t
         THEN [ok |-> FALSE, error |-> "ExpiredSignatureError"]
    ELSE [ok |-> TRUE, payload |-> token.claims]

\* Optional[timedelta]: <<>> is None, <<d>> a timedelta of d minutes.
\* The truth value `if expires_delta:` tests: None and timedelta(0) are falsy.
Truthy(expires_delta) == expires_delta # <<>> /\ expires_delta[1] # 0

create_access_token(data, expires_delta, utcnow) ==
    LET expire == IF Truthy(expires_delta)
                  THEN utcnow + expires_delta[1]
                  ELSE utcnow + ACCESS_TOKEN_EXPIRE_MINUTES
        to_encode == [k \in DOMAIN data \cup {"exp"} |->
                         IF k = "exp" THEN expire ELSE data[k]]
    IN  JwtEncode(to_encode, SECRET_KEY)

credentials_exception == [status |-> 401,
                          detail |-> "Could not validate credentials",
                          headers |-> Bearer]

\* select(User).where(User.username == username): the matching rows.
UserByUsername(table, username) == {u \in table : u.username = username}

\* select(User).where(User.email == email): the matching rows.
UserByEmail(table, email) == {u \in table : u.email = email}

\* .first() of a non-empty result.
First(rows) == CHOOSE r \in rows : \A q \in rows : r.id <= q.id

\* A resolver that reports why the token was refused.
get_current_user_Telling(token, table, t) ==
    LET decoded == JwtDecode(token, SECRET_KEY, t) IN
    IF ~decoded.ok
    THEN [ok |-> FALSE,
          exc |-> [credentials_exception EXCEPT !.detail = decoded.error]]
    ELSE IF "sub" \notin DOMAIN decoded.payload
         THEN [ok |-> FALSE, exc |-> credentials_exception]
    ELSE LET rows == UserByUsername(table, decoded.payload["sub"]) IN
         IF rows = {} THEN [ok |-> FALSE, exc |-> credentials_exception]
         ELSE [ok |-> TRUE, user |-> First(rows)]

\* The dependency every protected route resolves its caller with.
get_current_user(token, table, t) ==
    LET decoded == JwtDecode(token, SECRET_KEY, t) IN
    IF ~decoded.ok THEN [ok |-> FALSE, exc |-> credentials_exception]
    ELSE IF "sub" \notin DOMAIN decoded.payload
         THEN [ok |-> FALSE, exc |-> credentials_exception]
    ELSE LET rows == UserByUsername(table, decoded.payload["sub"]) IN
         IF rows = {} THEN [ok |-> FALSE, exc |-> credentials_exception]
         ELSE [ok |-> TRUE, user |-> First(rows)]

-----------------------------------------------------------------------------
(* schemas.py: UserCreate *)

\* UserCreate.validate_password: None when the password passes.
validate_password(v) ==
    IF Len(v) < 8 THEN "Password must be at least 8 characters long"
    ELSE IF ~\E i \in 1..Len(v) : IsDigit(v[i])
         THEN "Password must contain at least one number"
    ELSE IF ~\E i \in 1..Len(v) : IsAlpha(v[i])
         THEN "Password must contain at least one letter"
    ELSE None

-----------------------------------------------------------------------------
(* Inputs *)

Usernames == {<<"A", "l">>, <<"a", "l">>, <<"b", "o">>}
Emails == {"a@x.com", "b@x.com"}
Pw1 == <<"a", "b", "c", "d", "1", "2", "3", "4">>
Pw2 == <<"x", "y", "z", "w", "9", "8", "7", "6">>
PwShort == <<"a", "1">>
RegisterPasswords == {Pw1, PwShort}
LoginPasswords == {Pw1, Pw2}

UserCreates ==
    [username : Usernames, email : Emails, password : RegisterPasswords]

-----------------------------------------------------------------------------
(* models.py: the user table *)

MaxOf(S) == CHOOSE m \in S : \A x \in S : x <= m

\* INTEGER PRIMARY KEY: the next rowid is the largest one in the table plus one.
NextId(ids) == IF ids = {} THEN 1 ELSE MaxOf(ids) + 1

\* A user table declared without its UNIQUE constraints.
UserUniqueOk_Unconstrained(table, new_user) == TRUE

\* The UNIQUE constraints on user.username and user.email.
UserUniqueOk(table, new_user) ==
    /\ \A u \in table : u.username # new_user.username
    /\ \A u \in table : u.email # new_user.email

-----------------------------------------------------------------------------
(* auth.py: POST /auth/register/ *)

IdleReg == [pc |-> "idle", username |-> <<>>, email |-> None, password |-> <<>>]

\* The request a running register handler is serving, username lowercased.
Serving(p, r) ==
    [proc |-> p,
     input |-> [username |-> r.username, email |-> r.email, password |-> r.password]]

\* Body validation, lowercasing, and the first read: a user with this username.
RegisterCheckUsername(p, user_input) ==
    /\ reg[p].pc = "idle"
    /\ LET req == [proc |-> p, input |-> user_input]
           invalid == validate_password(user_input.password)
           username_lower == Lower(user_input.username)
       IN  IF invalid # None
           THEN /\ resp' = Response("register", req, 422, invalid, NoHeaders, None)
                /\ reg' = reg
           ELSE IF UserByUsername(users, username_lower) # {}
           THEN /\ resp' = Response("register", req, 400,
                               "This username is already taken. Please choose another.",
                               NoHeaders, None)
                /\ reg' = reg
           ELSE /\ resp' = resp
                /\ reg' = [reg EXCEPT ![p] = [pc |-> "email",
                                              username |-> username_lower,
                                              email |-> user_input.email,
                                              password |-> user_input.password]]
    /\ UNCHANGED <<users, tasks, calls, now, issued>>

\* The second read: a user with this email.
RegisterCheckEmail(p) ==
    /\ reg[p].pc = "email"
    /\ IF UserByEmail(users, reg[p].email) # {}
       THEN /\ resp' = Response("register", Serving(p, reg[p]), 400,
                           "This email address is already registered.",
                           NoHeaders, None)
            /\ reg' = [reg EXCEPT ![p] = IdleReg]
       ELSE /\ resp' = resp
            /\ reg' = [reg EXCEPT ![p].pc = "commit"]
    /\ UNCHANGED <<users, tasks, calls, now, issued>>

\* session.add / session.commit: the INSERT, refused by a UNIQUE constraint.
RegisterCommit(p) ==
    /\ reg[p].pc = "commit"
    /\ \E salt \in Salts :
         LET new_user == [id |-> NextId({u.id : u \in users}),
                          username |-> reg[p].username,
                          email |-> reg[p].email,
                          hashed_password |-> hash_password(reg[p].password, salt)]
         IN  IF UserUniqueOk(users, new_user)
             THEN /\ users' = users \cup {new_user}
                  /\ resp' = Response("register", Serving(p, reg[p]), 200,
                                 None, NoHeaders,
                                 [message |-> "User registered successfully",
                                  username |-> new_user.username])
             ELSE /\ users' = users
                  /\ resp' = Response("register", Serving(p, reg[p]), 500,
                                 "IntegrityError", NoHeaders, None)
    /\ reg' = [reg EXCEPT ![p] = IdleReg]
    /\ UNCHANGED <<tasks, calls, now, issued>>

-----------------------------------------------------------------------------
(* auth.py: POST /auth/token *)

LoginForms == [username : Usernames, password : LoginPasswords]

login_for_access_token(form_data) ==
    /\ LET username_lower == Lower(form_data.username)
           rows == UserByUsername(users, username_lower)
       IN  IF rows = {} \/ ~verify_password(form_data.password,
                                            First(rows).hashed_password)
           THEN /\ resp' = Response("login", form_data, 401,
                               "Incorrect username or password", Bearer, None)
                /\ issued' = issued
           ELSE LET access_token ==
                        create_access_token([sub |-> First(rows).username], <<>>, now)
                    grant == [token |-> access_token, expires_delta |-> <<>>]
                IN  /\ Cardinality(issued \cup {grant}) <= MaxTokens
                    /\ resp' = Response("login", form_data, 200, None, NoHeaders,
                                   [access_token |-> access_token,
                                    token_type |-> "bearer"])
                    /\ issued' = issued \cup {grant}
    /\ UNCHANGED <<users, tasks, calls, now, reg>>

-----------------------------------------------------------------------------
(* security.py: create_access_token called with an explicit lifetime *)

TokenData == {[sub |-> <<"a", "l">>], [sub |-> <<"b", "o">>], <<>>}
ExpiresDeltas == {<<>>, <<0>>, <<1>>, <<-1>>}

CreateAccessToken(data, expires_delta) ==
    /\ LET grant == [token |-> create_access_token(data, expires_delta, now),
                     expires_delta |-> expires_delta]
       IN  /\ Cardinality(issued \cup {grant}) <= MaxTokens
           /\ issued' = issued \cup {grant}
           /\ resp' = Response("create_access_token",
                          [data |-> data, expires_delta |-> expires_delta, at |-> now],
                          200, None, NoHeaders, grant.token)
    /\ UNCHANGED <<users, tasks, calls, now, reg>>

-----------------------------------------------------------------------------
(* routers/users.py: GET /users/me *)

\* A string that is no JWT, and a JWT signed with a key other than SECRET_KEY.
Garbage == [kind |-> "garbage", claims |-> <<>>, key |-> "none"]
Forged == JwtEncode([sub |-> <<"a", "l">>, exp |-> MaxClock + ACCESS_TOKEN_EXPIRE_MINUTES],
                    "attacker key")

\* The bearer tokens a request can carry.
Presentable == {g.token : g \in issued} \cup {Garbage, Forged}

\* The bearer tokens the task requests carry.
Callers == {g.token : g \in issued} \cup {Forged}

\* response_model=UserRead
UserRead(user) == [id |-> user.id, username |-> user.username, email |-> user.email]

read_user_me(token) ==
    /\ LET current == get_current_user(token, users, now)
           req == [token |-> token, at |-> now]
       IN  IF ~current.ok
           THEN resp' = Response("read_user_me", req, current.exc.status,
                            current.exc.detail, current.exc.headers, None)
           ELSE resp' = Response("read_user_me", req, 200, None, NoHeaders,
                            UserRead(current.user))
    /\ UNCHANGED <<users, tasks, calls, now, issued, reg>>

\* Time passes.
AdvanceSteps == {ACCESS_TOKEN_EXPIRE_MINUTES, ACCESS_TOKEN_EXPIRE_MINUTES + 1}

Advance(d) ==
    /\ now + d <= MaxClock
    /\ now' = now + d
    /\ UNCHANGED <<users, tasks, calls, issued, reg, resp>>

-----------------------------------------------------------------------------
(* schemas.py and models.py: tasks *)

\* A JSON request body: the keys sent with a value, and the keys sent as null.
Body(vals, nulls) == [vals |-> vals, nulls |-> nulls]

TaskCreateFields == {"title", "description", "priority", "due_date", "category"}
TaskUpdateFields ==
    {"title", "description", "is_completed", "priority", "due_date", "category"}

\* Columns declared without Optional: NOT NULL.
NotNullColumns ==
    {"title", "is_completed", "priority", "created_at", "updated_at", "owner_id"}

\* A model that keeps the keys it does not declare.
ParseBody_KeepExtra(fields, json) == json

\* A pydantic model ignores the keys it does not declare.
ParseBody(fields, json) ==
    Body([k \in DOMAIN json.vals \cap fields |-> json.vals[k]], json.nulls \cap fields)

\* Task.validate_title: the trimmed title, or the error raised. The routes never
\* reach it: Task is a table model (see Task below).
validate_title(value) ==
    IF value = <<>> \/ Len(Strip(value)) = 0
    THEN [ok |-> FALSE, error |-> "Title cannot be empty"]
    ELSE IF Len(value) > 200
    THEN [ok |-> FALSE, error |-> "Title must be less than 200 characters"]
    ELSE [ok |-> TRUE, value |-> Strip(value)]

\* A column of a row, with the value given or the column's default.
Given(parsed, k, default) ==
    IF k \in DOMAIN parsed.vals THEN parsed.vals[k] ELSE default

\* Task(...): a table model is constructed without running its validators, so
\* the title is stored as given. An attribute left None is left out of the
\* INSERT when its column has a default, so a null priority is stored as the
\* default.
Task(task_input, owner_id, utcnow) ==
    [id |-> 0,
     title |-> task_input.vals["title"],
     description |-> Given(task_input, "description", None),
     is_completed |-> FALSE,
     priority |-> Given(task_input, "priority", "medium"),
     due_date |-> Given(task_input, "due_date", None),
     category |-> Given(task_input, "category", None),
     created_at |-> utcnow,
     updated_at |-> utcnow,
     owner_id |-> owner_id]

\* setattr(db_task, key, value) for every key the request set.
SetAttrs(db_task, update_data) ==
    \* update_data is model_dump(exclude_unset=True): the keys the request set
    [k \in DOMAIN db_task |->
        IF k \in DOMAIN update_data.vals THEN update_data.vals[k]
        ELSE IF k \in update_data.nulls THEN None
        ELSE db_task[k]]

\* response_model=TaskRead
TaskRead(t) == t

\* The selection without its owner filter.
TasksOf_All(table, owner_id) == table

\* select(Task).where(Task.owner_id == owner_id)
TasksOf(table, owner_id) == {t \in table : t.owner_id = owner_id}

\* select(Task).where(Task.id == task_id, Task.owner_id == owner_id)
TaskOf(table, task_id, owner_id) ==
    {t \in table : t.id = task_id /\ t.owner_id = owner_id}

\* session.delete(task); session.commit(): DELETE FROM task WHERE id = ?
Delete(table, id) == {t \in table : t.id # id}

NoBody == Body(<<>>, {})

\* The attributes of the loaded object that the request changed, which are the
\* columns its UPDATE sets: an attribute set to the value it was loaded with is
\* not written. updated_at is utcnow(), which never repeats the loaded value.
Dirty(loaded, update_data, utcnow) ==
    LET set == {k \in DOMAIN update_data.vals \cap DOMAIN loaded :
                   update_data.vals[k] # loaded[k]}
    IN  Body([k \in set \cup {"updated_at"} |->
                 IF k = "updated_at" THEN utcnow ELSE update_data.vals[k]],
             {k \in update_data.nulls :
                 k \in NotNullColumns \/ loaded[k] # None})

\* The dependency failed: the route's own code never ran.
Unauthorized(op, token, current) ==
    Response(op, [token |-> token], current.exc.status, current.exc.detail,
             current.exc.headers, None)

NotFound(op, token, task_id) ==
    Response(op, [token |-> token, task_id |-> task_id], 404,
             "Task not found or unauthorized access", NoHeaders, None)

-----------------------------------------------------------------------------
(* Task inputs *)

Milk == <<"m", "i", "l", "k">>
Blank == <<" ">>
Empty == <<>>

TaskCreates ==
    { Body([title |-> Milk], {}),
      Body([title |-> Milk], {"priority"}),
      Body([title |-> Blank, description |-> "d", priority |-> "urgent",
            due_date |-> "2030-01-01", category |-> "home"], {}) }

TaskUpdates ==
    { Body(<<>>, {}),
      Body([title |-> Empty, is_completed |-> TRUE, priority |-> "high",
            owner_id |-> 2, id |-> 2], {"description"}),
      Body([is_completed |-> TRUE], {"title"}) }

TaskIds == 1..MaxTaskId

-----------------------------------------------------------------------------
(* main.py: the protected task routes *)
\* A request in flight: what its handler holds between two statements. dirty is
\* the attributes the session has pending for its UPDATE.
Call(op, pc, token, task_id, body, dirty) ==
    [op |-> op, pc |-> pc, token |-> token, task_id |-> task_id, body |-> body,
     dirty |-> dirty]

InFlight == BagToSet(calls)

\* A worker of the thread pool is free to take a request.
FreeWorker == BagCardinality(calls) < NumProcs

Start(c) == calls' = calls (+) SetToBag({c})
Finish(c) == calls' = calls (-) SetToBag({c})
Move(c, c2) == calls' = (calls (-) SetToBag({c})) (+) SetToBag({c2})

\* session.refresh(db_task): the row of that primary key as it is now, and
\* InvalidRequestError when it is gone.
Refresh(c, req) ==
    LET rows == {t \in tasks : t.id = c.task_id} IN
    /\ resp' = IF rows = {}
               THEN Response(c.op, req, 500, "InvalidRequestError", NoHeaders, None)
               ELSE Response(c.op, req, 200, None, NoHeaders, TaskRead(First(rows)))
    /\ Finish(c)
    /\ UNCHANGED <<users, tasks, now, issued, reg>>

\* create_task up to session.commit(): the row is inserted.
create_task(token, json) ==
    /\ FreeWorker
    /\ LET current == get_current_user(token, users, now)
           req == [token |-> token, body |-> json]
       IN  IF ~current.ok
           THEN /\ resp' = Unauthorized("create_task", token, current)
                /\ UNCHANGED <<tasks, calls>>
           ELSE LET task_input == ParseBody(TaskCreateFields, json) IN
                IF "title" \notin DOMAIN task_input.vals
                THEN /\ resp' = Response("create_task", req, 422,
                                    IF "title" \in task_input.nulls
                                    THEN "Input should be a valid string"
                                    ELSE "Field required", NoHeaders, None)
                     /\ UNCHANGED <<tasks, calls>>
                ELSE LET db_task == [Task(task_input, current.user.id, now)
                                        EXCEPT !.id = NextId({t.id : t \in tasks})]
                     IN  /\ db_task.id <= MaxTaskId
                         /\ tasks' = tasks \cup {db_task}
                         /\ Start(Call("create_task", "refresh", token, db_task.id,
                                       json, NoBody))
                         /\ resp' = resp
    /\ UNCHANGED <<users, now, issued, reg>>

\* create_task from session.refresh(db_task) on.
CreateRefresh(c) ==
    /\ c \in InFlight
    /\ c.op = "create_task" /\ c.pc = "refresh"
    /\ Refresh(c, [token |-> c.token, body |-> c.body])

get_task_stats(token) ==
    /\ FreeWorker
    /\ LET current == get_current_user(token, users, now)
           req == [token |-> token]
       IN  IF ~current.ok
           THEN resp' = Unauthorized("get_task_stats", token, current)
           ELSE LET mine == TasksOf(tasks, current.user.id)
                    total == Cardinality(mine)
                    completed == Cardinality({t \in mine : t.is_completed})
                    count(p) == Cardinality({t \in mine : t.priority = p})
                IN  resp' = Response("get_task_stats", req, 200, None, NoHeaders,
                                [total |-> total,
                                 completed |-> completed,
                                 pending |-> total - completed,
                                 by_priority |-> [urgent |-> count("urgent"),
                                                  high |-> count("high"),
                                                  medium |-> count("medium"),
                                                  low |-> count("low")]])
    /\ UNCHANGED <<users, tasks, calls, now, issued, reg>>

read_tasks(token) ==
    /\ FreeWorker
    /\ LET current == get_current_user(token, users, now)
           req == [token |-> token]
       IN  IF ~current.ok
           THEN resp' = Unauthorized("read_tasks", token, current)
           ELSE resp' = Response("read_tasks", req, 200, None, NoHeaders,
                            {TaskRead(t) : t \in TasksOf(tasks, current.user.id)})
    /\ UNCHANGED <<users, tasks, calls, now, issued, reg>>

\* delete_task up to session.delete(task): the task is looked up.
delete_task(token, task_id) ==
    /\ FreeWorker
    /\ LET current == get_current_user(token, users, now) IN
       IF ~current.ok
       THEN /\ resp' = Unauthorized("delete_task", token, current)
            /\ calls' = calls
       ELSE IF TaskOf(tasks, task_id, current.user.id) = {}
       THEN /\ resp' = NotFound("delete_task", token, task_id)
            /\ calls' = calls
       ELSE /\ Start(Call("delete_task", "commit", token, task_id, NoBody, NoBody))
            /\ resp' = resp
    /\ UNCHANGED <<users, tasks, now, issued, reg>>

\* delete_task from session.commit() on: DELETE of the loaded primary key. A
\* DELETE that matches no row only warns.
DeleteCommit(c) ==
    /\ c \in InFlight
    /\ c.op = "delete_task" /\ c.pc = "commit"
    /\ tasks' = Delete(tasks, c.task_id)
    /\ resp' = Response("delete_task", [token |-> c.token, task_id |-> c.task_id],
                        200, None, NoHeaders, [ok |-> TRUE])
    /\ Finish(c)
    /\ UNCHANGED <<users, now, issued, reg>>

\* update_task up to session.commit(): the task is looked up and the request's
\* fields and the time are set on the loaded object.
update_task(token, task_id, json) ==
    /\ FreeWorker
    /\ LET current == get_current_user(token, users, now) IN
       IF ~current.ok
       THEN /\ resp' = Unauthorized("update_task", token, current)
            /\ calls' = calls
       ELSE LET rows == TaskOf(tasks, task_id, current.user.id) IN
            IF rows = {}
            THEN /\ resp' = NotFound("update_task", token, task_id)
                 /\ calls' = calls
            ELSE LET update_data == ParseBody(TaskUpdateFields, json)
                 IN  /\ Start(Call("update_task", "commit", token, task_id, json,
                                   Dirty(First(rows), update_data, now)))
                     /\ resp' = resp
    /\ UNCHANGED <<users, tasks, now, issued, reg>>

\* update_task's session.commit(): UPDATE of the loaded primary key with the
\* changed attributes. An UPDATE that matches no row raises StaleDataError.
UpdateCommit(c) ==
    /\ c \in InFlight
    /\ c.op = "update_task" /\ c.pc = "commit"
    /\ LET rows == {t \in tasks : t.id = c.task_id}
           req == [token |-> c.token, task_id |-> c.task_id, body |-> c.body]
       IN  IF rows = {}
           THEN /\ resp' = Response("update_task", req, 500, "StaleDataError",
                               NoHeaders, None)
                /\ tasks' = tasks
                /\ Finish(c)
           ELSE IF c.dirty.nulls \cap NotNullColumns # {}
           THEN /\ resp' = Response("update_task", req, 500, "IntegrityError",
                               NoHeaders, None)
                /\ tasks' = tasks
                /\ Finish(c)
           ELSE /\ tasks' = (tasks \ rows) \cup {SetAttrs(First(rows), c.dirty)}
                /\ Move(c, [c EXCEPT !.pc = "refresh", !.dirty = NoBody])
                /\ resp' = resp
    /\ UNCHANGED <<users, now, issued, reg>>

\* update_task from session.refresh(db_task) on.
UpdateRefresh(c) ==
    /\ c \in InFlight
    /\ c.op = "update_task" /\ c.pc = "refresh"
    /\ Refresh(c, [token |-> c.token, task_id |-> c.task_id, body |-> c.body])

-----------------------------------------------------------------------------

Init ==
    /\ users = {}
    /\ tasks = {}
    /\ now = 0
    /\ issued = {}
    /\ reg = [p \in Procs |-> IdleReg]
    /\ calls = EmptyBag
    /\ resp = NoResponse

NextReg ==
    \/ \E p \in Procs, user_input \in UserCreates : RegisterCheckUsername(p, user_input)
    \/ \E p \in Procs : RegisterCheckEmail(p)
    \/ \E p \in Procs : RegisterCommit(p)
    \/ \E form_data \in LoginForms : login_for_access_token(form_data)

SpecReg == Init /\ [][NextReg]_vars

\* The user table after Al registered with Pw1: a state SpecReg reaches.
Alice == [id |-> 1, username |-> <<"a", "l">>, email |-> "a@x.com",
          hashed_password |-> hash_password(Pw1, "salt1")]

InitTok ==
    /\ users = {Alice}
    /\ tasks = {}
    /\ now = 0
    /\ issued = {}
    /\ reg = [p \in Procs |-> IdleReg]
    /\ calls = EmptyBag
    /\ resp = NoResponse

NextTok ==
    \/ \E form_data \in LoginForms : login_for_access_token(form_data)
    \/ \E data \in TokenData, expires_delta \in ExpiresDeltas :
          CreateAccessToken(data, expires_delta)
    \/ \E token \in Presentable : read_user_me(token)
    \/ \E d \in AdvanceSteps : Advance(d)

SpecTok == InitTok /\ [][NextTok]_vars

\* The user table after Al and Bo registered, and the tokens of their logins:
\* a state SpecReg reaches. The clock stands still while the task requests run.
Bob == [id |-> 2, username |-> <<"b", "o">>, email |-> "b@x.com",
        hashed_password |-> hash_password(Pw1, "salt2")]

InitTasks ==
    /\ users = {Alice, Bob}
    /\ tasks = {}
    /\ now = 0
    /\ issued = {[token |-> create_access_token([sub |-> u.username], <<>>, 0),
                  expires_delta |-> <<>>] : u \in {Alice, Bob}}
    /\ reg = [p \in Procs |-> IdleReg]
    /\ calls = EmptyBag
    /\ resp = NoResponse

NextTasks ==
    \/ \E token \in Callers, json \in TaskCreates : create_task(token, json)
    \/ \E c \in InFlight : CreateRefresh(c)
    \/ \E token \in Callers : get_task_stats(token)
    \/ \E token \in Callers : read_tasks(token)
    \/ \E token \in Callers, task_id \in TaskIds : delete_task(token, task_id)
    \/ \E c \in InFlight : DeleteCommit(c)
    \/ \E token \in Callers, task_id \in TaskIds, json \in TaskUpdates :
          update_task(token, task_id, json)
    \/ \E c \in InFlight : UpdateCommit(c)
    \/ \E c \in InFlight : UpdateRefresh(c)

SpecTasks == InitTasks /\ [][NextTasks]_vars

-----------------------------------------------------------------------------
(* Properties of the task routes, checked under SpecTasks *)

\* The user a bearer token resolves to, when it resolves.
Caller(token) == get_current_user(token, users, now)

TaskIdsIn(table) == {t.id : t \in table}

\* The step answered a request to route op; resp' records the request.
Answered(op) == resp' # resp /\ resp'.op = op

\* The step answered a request to route op made by a resolved caller.
AnsweredCaller(op) == Answered(op) /\ Caller(resp'.req.token).ok

\* The step started a request: a call is in flight that was not before.
Started(c) == c \in BagToSet(calls') /\ CopiesIn(c, calls') > CopiesIn(c, calls)

\* C1: ownership isolation. A listing returns no task of another owner, and an
\* update or delete of an id that is another owner's task answers 404 and
\* leaves the task table as it was; no step of a caller's update or delete
\* changes or removes a task of another owner.
C1_OwnershipIsolation ==
    [][/\ AnsweredCaller("read_tasks") =>
            \A t \in resp'.body : t.owner_id = Caller(resp'.req.token).user.id
       /\ \A op \in {"delete_task", "update_task"} :
            (/\ AnsweredCaller(op)
             /\ \E t \in tasks : /\ t.id = resp'.req.task_id
                                 /\ t.owner_id # Caller(resp'.req.token).user.id) =>
              resp'.status = 404 /\ tasks' = tasks
       /\ \A c \in InFlight :
            (DeleteCommit(c) \/ UpdateCommit(c)) =>
              \A t \in tasks :
                t.owner_id # Caller(c.token).user.id => t \in tasks']_vars

\* The fields of TaskUpdate a request body supplies.
Supplied(json) == (DOMAIN json.vals \cup json.nulls) \cap TaskUpdateFields

\* C7: an update whose UPDATE is committed changes exactly the supplied fields, to the
\* values supplied, and updated_at, to the time the request read; every other
\* field and every other task is unchanged, and an empty body changes
\* updated_at alone.
C7_UpdateFrame ==
    [][\A c \in InFlight :
         (UpdateCommit(c) /\ Started([c EXCEPT !.pc = "refresh", !.dirty = NoBody])) =>
           LET json == c.body IN
           \E old \in tasks, new \in tasks' :
             /\ old.id = c.task_id /\ new.id = c.task_id
             /\ tasks' \ {new} = tasks \ {old}
             /\ new.updated_at = c.dirty.vals.updated_at
             /\ new.updated_at <= now
             /\ \A k \in DOMAIN old \ {"updated_at"} :
                  IF k \in Supplied(json)
                  THEN IF k \in json.nulls THEN new[k] = None
                       ELSE new[k] = json.vals[k]
                  ELSE new[k] = old[k]
             /\ Supplied(json) = {} =>
                  new = [old EXCEPT !.updated_at = c.dirty.vals.updated_at]]_vars

\* C8: every stored task has a title that is not empty after trimming.
C8_TitleNeverEmpty == \A t \in tasks : Len(Strip(t.title)) > 0

\* C9: every task has exactly one owner, the caller of its create request, and
\* no later step of any request changes it.
C9_OwnerImmutable ==
    [][/\ \A t \in tasks' : Cardinality({u \in users : u.id = t.owner_id}) = 1
       /\ \A t \in tasks, t2 \in tasks' : t.id = t2.id => t2.owner_id = t.owner_id
       /\ \A t \in tasks' :
            t.id \notin TaskIdsIn(tasks) =>
              \E c \in BagToSet(calls') :
                /\ Started(c)
                /\ c.op = "create_task" /\ c.task_id = t.id
                /\ Caller(c.token).ok
                /\ Caller(c.token).user.id = t.owner_id
      ]_vars

\* An update that carried another user's id as owner_id succeeded.
C9_Witness ==
    /\ resp.op = "update_task"
    /\ resp.status = 200
    /\ "owner_id" \in DOMAIN resp.req.body.vals
    /\ resp.req.body.vals.owner_id # resp.body.owner_id

\* C10: a successful delete removes exactly the task; a task id appears in the
\* table only through a create; listings and statistics read the table as it
\* is, so a deleted task is in neither; a delete or update of an id the table
\* does not hold answers 404 and changes nothing; a 404 delete removes nothing.
C10_DeletePermanent ==
    [][/\ \A c \in InFlight :
            DeleteCommit(c) =>
              /\ c.task_id \notin TaskIdsIn(tasks')
              /\ tasks' \subseteq tasks
              /\ Cardinality(tasks \ tasks') = 1
       /\ \A c \in InFlight :
            ((DeleteCommit(c) \/ UpdateCommit(c))
               /\ c.task_id \notin TaskIdsIn(tasks)) =>
              resp'.status = 404 /\ tasks' = tasks
       /\ (Answered("delete_task") /\ resp'.status = 404) => tasks' = tasks
       /\ \A op \in {"delete_task", "update_task"} :
            (AnsweredCaller(op) /\ resp'.req.task_id \notin TaskIdsIn(tasks)) =>
              resp'.status = 404 /\ tasks' = tasks
       /\ TaskIdsIn(tasks') \ TaskIdsIn(tasks) # {} =>
            \E c \in BagToSet(calls') : Started(c) /\ c.op = "create_task"
       /\ (Answered("read_tasks") /\ resp'.status = 200) =>
            resp'.body \subseteq tasks
       /\ (Answered("get_task_stats") /\ resp'.status = 200) =>
            resp'.body.total =
                Cardinality({t \in tasks :
                               t.owner_id = Caller(resp'.req.token).user.id})
      ]_vars

-----------------------------------------------------------------------------
(* Properties of registration and login, checked under SpecReg *)

UsernameTaken == "This username is already taken. Please choose another."

\* C2: no two users share a username, and no two share an email, whatever the
\* interleaving of the register requests.
C2_UsersUnique ==
    \A u1 \in users, u2 \in users :
        u1 # u2 => u1.username # u2.username /\ u1.email # u2.email

\* Two requests raced: both passed their reads, one committed, and the commit
\* of the other was refused.
C2_Witness ==
    /\ resp.op = "register"
    /\ resp.status = 500
    /\ \E u \in users : u.username = resp.req.input.username
                        \/ u.email = resp.req.input.email

\* C3: once a username is registered, every later register request whose
\* username equals it ignoring case fails with "username taken" and creates no
\* user.
C3_UsernameTakenAlways ==
    [][\A p \in Procs, user_input \in UserCreates :
         (/\ RegisterCheckUsername(p, user_input)
          /\ \E u \in users : Lower(u.username) = Lower(user_input.username)) =>
           /\ resp'.op = "register"
           /\ resp'.status = 400
           /\ resp'.detail = UsernameTaken
           /\ reg'[p].pc = "idle"
           /\ users' = users]_vars

EmailTaken == "This email address is already registered."

\* C11: register rejects in the order username taken, email taken, password
\* strength. A request whose lowercased username is stored is answered
\* "username taken" and one whose email is stored (username fresh) "email
\* taken", whatever its password; a password failure is answered only to a
\* request whose username and email are both fresh; a rejection creates no
\* user.
C11_RejectionOrder ==
    [][\A p \in Procs, user_input \in UserCreates :
         RegisterCheckUsername(p, user_input) =>
           LET name_taken == \E u \in users :
                                u.username = Lower(user_input.username)
               email_taken == \E u \in users : u.email = user_input.email
           IN  /\ users' = users
               /\ name_taken =>
                    resp'.status = 400 /\ resp'.detail = UsernameTaken
               /\ (~name_taken /\ email_taken) =>
                    ~(resp'.op = "register" /\ resp'.req.proc = p
                        /\ resp'.req.input = user_input /\ resp'.status = 422)
               /\ (resp'.op = "register" /\ resp' # resp /\ resp'.status = 422) =>
                    ~name_taken /\ ~email_taken]_vars

\* C6: login succeeds, with a bearer token whose subject is the stored
\* username, exactly when a user is stored under the lowercased username and
\* the password reproduces that user's stored digest; otherwise it answers one
\* and the same 401.
C6_LoginIff ==
    [][(resp' # resp /\ resp'.op = "login") =>
           LET form_data == resp'.req
               matching ==
                 {u \in users :
                    /\ u.username = Lower(form_data.username)
                    /\ u.hashed_password.digest =
                         Digest(form_data.password, u.hashed_password.salt)}
           IN  IF matching # {}
               THEN /\ resp'.status = 200
                    /\ resp'.body.token_type = "bearer"
                    /\ \E u \in matching :
                         resp'.body.access_token.claims["sub"] = u.username
                    /\ get_current_user(resp'.body.access_token, users, now).ok
               ELSE resp' = Response("login", form_data, 401,
                                "Incorrect username or password", Bearer, None)
      ]_vars

\* A login under a username in capitals succeeded.
C6_Witness ==
    /\ resp.op = "login"
    /\ resp.status = 200
    /\ resp.req.username = <<"A", "l">>
    /\ resp.body.access_token.claims["sub"] = <<"a", "l">>

-----------------------------------------------------------------------------
(* Properties of the tokens, checked under SpecTok *)

\* C4: a token issued with a lifetime of zero, or whose expiry lies in the
\* past, never resolves to a user.
C4_ZeroTtlOrExpiredRejected ==
    \A g \in issued :
        (g.expires_delta = <<0>> \/ g.token.claims["exp"] < now) =>
            ~get_current_user(g.token, users, now).ok

\* Why a token cannot name a user at time t; "none" when it can.
Cause(token, t) ==
    IF token.kind # "jws" THEN "malformed"
    ELSE IF token.key # SECRET_KEY THEN "signature"
    ELSE IF token.claims["exp"] < t THEN "expired"
    ELSE IF "sub" \notin DOMAIN token.claims THEN "no subject"
    ELSE IF \A u \in users : u.username # token.claims["sub"] THEN "unknown user"
    ELSE "none"

\* C5: the resolver answers every refused token, whatever the cause, with one
\* and the same 401, and resolving changes no stored state.
C5_UniformRefusal ==
    /\ [](resp.op = "read_user_me" =>
            IF Cause(resp.req.token, resp.req.at) = "none"
            THEN resp.status = 200
            ELSE resp = Response("read_user_me", resp.req, 401,
                            "Could not validate credentials", Bearer, None))
    /\ [][(resp' # resp /\ resp'.op = "read_user_me") =>
            UNCHANGED <<users, tasks, issued>>]_vars

\* An expired token of a stored user, validly signed, was refused.
C5_Witness ==
    /\ resp.op = "read_user_me"
    /\ resp.status = 401
    /\ Cause(resp.req.token, resp.req.at) = "expired"
    /\ "sub" \in DOMAIN resp.req.token.claims
    /\ \E u \in users : u.username = resp.req.token.claims["sub"]

PriorityLevel == {"low", "medium", "high", "urgent"}

\* C12: stats is a pure aggregation over the caller's own tasks. total is the
\* number of stored tasks whose owner is the caller, completed the number of
\* those with is_completed true, pending is total - completed, each priority
\* count is the number of the caller's tasks of that priority and the four
\* counts sum to total; tasks of other owners are not counted, and the call
\* changes no stored state.
C12_StatsAggregation ==
    [][(Answered("get_task_stats") /\ resp'.status = 200) =>
         LET me == Caller(resp'.req.token).user.id
             body == resp'.body
             by == body.by_priority
         IN  /\ body.total = Cardinality({t \in tasks : t.owner_id = me})
             /\ body.completed =
                  Cardinality({t \in tasks : t.owner_id = me /\ t.is_completed})
             /\ body.pending = body.total - body.completed
             /\ DOMAIN by = PriorityLevel
             /\ \A p \in PriorityLevel :
                  by[p] = Cardinality({t \in tasks : t.owner_id = me /\ t.priority = p})
             /\ by.low + by.medium + by.high + by.urgent = body.total
             /\ UNCHANGED <<users, tasks, calls, issued>>]_vars

\* Stats answered for a caller with a completed task while the table also
\* holds a task of another owner.
C12_Witness ==
    /\ resp.op = "get_task_stats"
    /\ resp.status = 200
    /\ resp.body.total >= 1
    /\ resp.body.completed >= 1
    /\ Cardinality(tasks) > resp.body.total
    /\ Caller(resp.req.token).ok
    /\ \E t \in tasks : t.owner_id # Caller(resp.req.token).user.id

====
